---------------------------- MODULE Spec2Model ----------------------------
(***************************************************************************)
(* A model of vmm (src/vmm/__init__.py, src/vmm/model.py): the menu-driven *)
(* libvirt domain manager.  The program is single threaded; its state is   *)
(* the Registry (the list `domains`), the call stack of the menu handlers, *)
(* and the hypervisor and storage state the handlers act on through        *)
(* libvirt.  Every handler is translated from its code; a libvirt call is  *)
(* an entry of `calls`, and may fail (libvirtError).                       *)
(***************************************************************************)
EXTENDS Naturals, Sequences, FiniteSets, TLC

VARIABLES
    hvDomains,   \* libvirt: uuid -> [name, desc]; desc is what XMLDesc() returns
    hvActive,    \* libvirt: the uuids of running domains (isActive)
    hvSaved,     \* libvirt: the uuids with a managed save image
    hvVolumes,   \* libvirt: the storage volumes, a set of records
    domains,     \* the Registry: List[Domain] built in main()
    stack,       \* the Python call stack; the last frame is the running one
    status,      \* "running", "returned", "crashed" (uncaught exception), "exited"
    calls,       \* the libvirt calls issued by the running handler, in order
    logged,      \* logger output of the running handler, in order
    hist,        \* history: [keep, ops], the last `keep` handlers completed
    config       \* the Config object: [exit_after_action]

vars == <<hvDomains, hvActive, hvSaved, hvVolumes, domains, stack, status,
          calls, logged, hist, config>>

----------------------------------------------------------------------------
(* Bounds of the model *)

\* the largest number of <disk> elements of a domain descriptor
MaxDisks == 2

\* the number of completed handlers the history keeps when a handler is
\* studied on its own, and when the whole action menu is
MaxOps == 2

MenuOps == 1

\* the number of times the program is started in one behaviour
MaxRuns == 2

\* the number of UUID values (uuid.uuid4 draws from those not in use)
MaxUuid == 3

----------------------------------------------------------------------------
(* Values *)

\* Python None, a missing XML element or a missing attribute value
NONE == "<none>"

\* an element that is present but lacks the attribute the code reads
NOATTR == "<noattr>"

Last(s) == s[Len(s)]

Range(s) == {s[k] : k \in 1..Len(s)}

SetToSeqs(S) == {s \in [1..Cardinality(S) -> S] : Range(s) = S}


----------------------------------------------------------------------------
(* pathlib.Path, as the sequence Path.parts: an absolute path starts "/" *)

ROOT == <<"/">>

\* Path(text): text is a sequence of tokens, "/" or a name; "." and empty
\* segments are dropped, a leading "/" makes the path absolute
PathOf(text) ==
    LET names == SelectSeq(text, LAMBDA t : t # "/" /\ t # ".")
    IN  IF text # <<>> /\ text[1] = "/" THEN ROOT \o names ELSE names

IsAbsolute(p) == p # <<>> /\ p[1] = "/"

\* a / b
JoinPath(a, b) == IF IsAbsolute(b) THEN b ELSE a \o b

\* p.is_relative_to(other): other's parts are a prefix of p's
IsRelativeTo(p, other) ==
    /\ Len(other) <= Len(p)
    /\ SubSeq(p, 1, Len(other)) = other
    /\ (other = <<>> => ~IsAbsolute(p))

\* p.relative_to(other), defined when IsRelativeTo(p, other)
RelativeTo(p, other) == SubSeq(p, Len(other) + 1, Len(p))

RECURSIVE JoinNames(_)
JoinNames(names) ==
    IF Len(names) <= 1 THEN names
    ELSE <<names[1], "/">> \o JoinNames(Tail(names))

\* str(p), as a sequence of tokens
PathStr(p) ==
    IF p = <<>> THEN <<".">>
    ELSE IF IsAbsolute(p) THEN ROOT \o JoinNames(Tail(p))
    ELSE JoinNames(p)

----------------------------------------------------------------------------
(* The overlay: ManagerMetadata and its XML payload *)

DefaultMetadata == [path |-> ROOT, labels |-> <<>>]

\* the payload kinds dom.metadata() can hand back
NoPayload == [kind |-> "absent", path |-> <<>>, labels |-> <<>>]

\* mutant: the encoding leaves the label elements out
ToXml_NoLabels(metadata) ==
    [kind |-> "vmm", path |-> PathStr(metadata.path), labels |-> <<>>]

\* ManagerMetadata.to_xml: <vmm><path>str(path)</path><label>..</label>*</vmm>
ToXml(metadata) ==
    [kind |-> "vmm", path |-> PathStr(metadata.path), labels |-> metadata.labels]

\* ManagerMetadata.from_xml of a well-formed payload
FromXml(raw) == [path |-> PathOf(raw.path), labels |-> raw.labels]

\* ManagerMetadata.from_xml raises on a payload that is not the vmm element
FromXmlRaises(raw) == raw.kind = "garbage"

\* Domain.from_virdomain: the metadata read raising libvirtError, or giving
\* nothing, yields the default overlay
FromVirDomain(name, uuid, raw, readRaises) ==
    [name |-> name, uuid |-> uuid,
     metadata |-> IF readRaises \/ raw.kind \in {"absent", "empty"}
                  THEN DefaultMetadata ELSE FromXml(raw)]

----------------------------------------------------------------------------
(* libvirt storage *)

NoXML == [vtype |-> NONE, name |-> NONE, format |-> NONE,
          backingPath |-> NONE, backingFormat |-> NONE]

\* one libvirt call: dom is the uuid of the domain it is issued on (0: none),
\* disk the number of the <disk> element it is issued for (0: none)
Call(op, dom, disk, path, pool, xml, from) ==
    [op |-> op, dom |-> dom, disk |-> disk, path |-> path, pool |-> pool,
     xml |-> xml, from |-> from]

DomCall(op, uuid) == Call(op, uuid, 0, NONE, NONE, NoXML, NONE)

VolPath(pool, name) == "/" \o pool \o "/" \o name

Volume(pool, name, format) ==
    [path |-> VolPath(pool, name), pool |-> pool, name |-> name,
     vtype |-> "file", format |-> format,
     backingPath |-> NONE, backingFormat |-> NONE, copyOf |-> NONE]

\* the storage the source domains live on
InitVolumes ==
    { Volume("p1", "src.qcow2", "qcow2"), Volume("p2", "d.qcow2", "qcow2"),
      Volume("p1", "b.img", "raw"), Volume("p2", "c.bin", NONE) }

VolumeAt(vols, path) == CHOOSE v \in vols : v.path = path

HasVolumeAt(vols, path) == \E v \in vols : v.path = path

\* virStorageVolCreateXML[From] refuses a name the pool already holds
PoolRefuses(vols, pool, xml) ==
    \E v \in vols : v.pool = pool /\ v.name = xml.name

\* the volume a successful createXML / createXMLFrom adds to the pool
CreatedVolume(pool, xml, from) ==
    [path |-> VolPath(pool, xml.name), pool |-> pool, name |-> xml.name,
     vtype |-> xml.vtype, format |-> xml.format,
     backingPath |-> xml.backingPath, backingFormat |-> xml.backingFormat,
     copyOf |-> from]

----------------------------------------------------------------------------
(* do_domain_disk_clone, src/vmm/__init__.py 386-485 *)

\* mutant: the clone mode is not consulted
UseBackingStore_IgnoresMode(targetFormat, copy_on_write) ==
    targetFormat = "qcow2"

\* mutant: the volume format is not consulted
UseBackingStore_IgnoresFormat(targetFormat, copy_on_write) ==
    copy_on_write

\* line 448: a backing store is used for qcow2 images of a linked clone
UseBackingStore(targetFormat, copy_on_write) ==
    targetFormat = "qcow2" /\ copy_on_write

\* mutant: the backing store names the new volume's format only, the path
\* element is left out
NewVolumeXML_NoBackingPath(backingVolume, cloneName, source_path, copy_on_write) ==
    LET targetFormat == backingVolume.format
        backed == UseBackingStore(targetFormat, copy_on_write)
    IN  [vtype |-> backingVolume.vtype,
         name |-> cloneName \o ".qcow2",
         format |-> targetFormat,
         backingPath |-> NONE,
         backingFormat |-> IF backed THEN targetFormat ELSE NONE]

\* lines 437-451: the <volume> document of the new volume
NewVolumeXML(backingVolume, cloneName, source_path, copy_on_write) ==
    LET targetFormat == backingVolume.format
        backed == UseBackingStore(targetFormat, copy_on_write)
    IN  [vtype |-> backingVolume.vtype,
         name |-> cloneName \o ".qcow2",
         format |-> targetFormat,
         backingPath |-> IF backed THEN source_path ELSE NONE,
         backingFormat |-> IF backed THEN targetFormat ELSE NONE]

\* what libvirt may answer to the calls of one disk clone
DiskOutcomes ==
    {"ok", "lookup_none", "lookup_raises", "pool_raises", "create_raises"}

\* The whole of do_domain_disk_clone for disk number i of the clone's
\* descriptor, under libvirt answer `out`: the disk element afterwards, the
\* volumes afterwards, the calls issued, the log lines, and whether an
\* exception left the function.
DiskClone(vols, disk, i, cloneName, copy_on_write, out) ==
    LET source_path == disk.source
        found == HasVolumeAt(vols, source_path)
        backingVolume == VolumeAt(vols, source_path)
        pool == backingVolume.pool
        xml == NewVolumeXML(backingVolume, cloneName, source_path, copy_on_write)
        backed == UseBackingStore(backingVolume.format, copy_on_write)
        cLookup == Call("storageVolLookupByPath", 0, i, source_path, NONE, NoXML, NONE)
        cPool == Call("storagePoolLookupByVolume", 0, i, source_path, NONE, NoXML, NONE)
        cDesc == Call("volXMLDesc", 0, i, source_path, NONE, NoXML, NONE)
        cCreate == IF backed
                   THEN Call("createXML", 0, i, NONE, pool, xml, NONE)
                   ELSE Call("createXMLFrom", 0, i, NONE, pool, xml, source_path)
        newVolume == CreatedVolume(pool, xml, cCreate.from)
        result(d, v, c, l, r) ==
            [disk |-> d, vols |-> v, calls |-> c, logged |-> l, raised |-> r]
    IN  IF disk.source = NONE
        THEN result(disk, vols, <<>>, <<"skipping because no source element found">>, FALSE)
        ELSE IF disk.source = NOATTR
        THEN result(disk, vols, <<>>, <<>>, TRUE)
        ELSE IF out = "lookup_none"
        THEN result(disk, vols, <<cLookup>>,
                    <<"could not find backing storage volume">>, FALSE)
        ELSE IF out = "lookup_raises" \/ ~found
        THEN result(disk, vols, <<cLookup>>, <<>>, TRUE)
        ELSE IF out = "pool_raises"
        THEN result(disk, vols, <<cLookup, cPool>>, <<>>, TRUE)
        ELSE IF out = "create_raises" \/ PoolRefuses(vols, pool, xml)
        THEN result(disk, vols, <<cLookup, cPool, cDesc, cCreate>>, <<>>, TRUE)
        ELSE result([disk EXCEPT !.source = newVolume.path],
                    vols \cup {newVolume},
                    <<cLookup, cPool, cDesc, cCreate>>,
                    <<IF backed THEN "created backed volume clone"
                                ELSE "copied existing volume">>,
                    FALSE)

----------------------------------------------------------------------------
(* The call stack *)

Top == Last(stack)

Running(fn, pc) == status = "running" /\ Top.fn = fn /\ Top.pc = pc

\* the running function's frame with some locals changed
SetTop(frame) == stack' = [stack EXCEPT ![Len(stack)] = frame]

\* return to the caller (the harness ends when the last frame returns)
Return ==
    /\ stack' = SubSeq(stack, 1, Len(stack) - 1)
    /\ status' = IF Len(stack) = 1 THEN "returned" ELSE status

\* an exception no frame catches: the interpreter unwinds and the program ends
Raise == status' = "crashed" /\ UNCHANGED stack

\* the history with one more completed handler
Record(entry) ==
    LET h == Append(hist.ops, entry)
    IN  hist' = [hist EXCEPT !.ops = IF Len(h) > hist.keep
                                     THEN SubSeq(h, Len(h) - hist.keep + 1, Len(h))
                                     ELSE h]

Log(i, msgs) == [k \in 1..Len(msgs) |-> [disk |-> i, msg |-> msgs[k]]]

----------------------------------------------------------------------------
(* libvirt domains *)

AllUuids == 1..MaxUuid

\* uuid.uuid4(): a random UUID, taken not to repeat one in use
Uuid4 == AllUuids \ (DOMAIN hvDomains \cup {domains[k].uuid : k \in 1..Len(domains)})

\* virDomainDefineXML refuses an empty name and a name another domain holds
DefineRefuses(hv, desc) ==
    \/ desc.name = ""
    \/ \E u \in DOMAIN hv : hv[u].name = desc.name /\ u # desc.uuid

----------------------------------------------------------------------------
(* do_domain_clone, src/vmm/__init__.py 323-383 *)

\* mutant: the uuid element keeps the source's value
RewriteIdentity_KeepsUuid(root, new_name, new_uuid) ==
    [root EXCEPT !.name = new_name]

\* lines 339-349: name and uuid elements are found or created, then set
RewriteIdentity(root, new_name, new_uuid) ==
    [root EXCEPT !.name = new_name, !.uuid = new_uuid]

\* mutant: the readonly element is not looked for
IsReadOnly_Never(disk) == FALSE

\* line 367: disk.find("readonly") is not None
IsReadOnly(disk) == disk.readonly

\* lines 357-376: one iteration of the loop over devices/disk, for disk i
CloneLoopStep(vols, root, i, new_name, copy_on_write, out) ==
    LET disk == root.disks[i]
        same(msg, raised) ==
            [disk |-> disk, vols |-> vols, calls |-> <<>>, logged |-> msg,
             raised |-> raised]
    IN  IF disk.target = NONE
        THEN same(<<"ignoring disk with no target element">>, FALSE)
        ELSE IF disk.target = NOATTR
        THEN same(<<>>, TRUE)
        ELSE IF IsReadOnly(disk)
        THEN same(<<"leaving read-only disk unchanged">>, FALSE)
        ELSE DiskClone(vols, disk, i, new_name, copy_on_write, out)

\* what the user may type at the clone name prompt (Fzf.ask): a new name,
\* the name of the source domain, or nothing at all
AskedNames == {"clone1", "src", ""}

CloneFrame(dom, copy_on_write) ==
    [fn |-> "do_domain_clone", pc |-> "begin", dom |-> dom,
     cow |-> copy_on_write, new_name |-> NONE,
     root |-> [name |-> NONE, uuid |-> 0, disks |-> <<>>, meta |-> NoPayload],
     i |-> 0]

\* variant: the cancelled prompt is noticed only after the descriptor was
\* registered under the new uuid
CloneBegin_DefinesBeforePrompt(asked) ==
    /\ Running("do_domain_clone", "begin")
    /\ LET domain == domains[Top.dom] IN
       \E lookupOk \in BOOLEAN, new_name \in asked \cup {NONE}, new_uuid \in Uuid4 :
          IF ~lookupOk \/ domain.uuid \notin DOMAIN hvDomains
          THEN /\ calls' = <<DomCall("lookupByUUID", domain.uuid)>>
               /\ Raise
               /\ UNCHANGED hvDomains
          ELSE IF new_name = NONE
          THEN /\ calls' = <<DomCall("lookupByUUID", domain.uuid),
                             DomCall("XMLDesc", domain.uuid),
                             DomCall("defineXML", new_uuid)>>
               /\ hvDomains' = hvDomains @@
                     (new_uuid :> [name |-> "",
                                   desc |-> RewriteIdentity(hvDomains[domain.uuid].desc,
                                                            "", new_uuid)])
               /\ Return
          ELSE /\ calls' = <<DomCall("lookupByUUID", domain.uuid),
                             DomCall("XMLDesc", domain.uuid)>>
               /\ SetTop([Top EXCEPT
                     !.pc = "disks", !.new_name = new_name, !.i = 1,
                     !.root = RewriteIdentity(hvDomains[domain.uuid].desc,
                                              new_name, new_uuid)])
               /\ UNCHANGED <<status, hvDomains>>
    /\ logged' = <<>>
    /\ UNCHANGED <<hvActive, hvSaved, hvVolumes, domains, hist, config>>

\* lines 328-355: lookup, XMLDesc, the name prompt, the new identity;
\* `asked` is what the user may answer at the prompt
CloneBegin(asked) ==
    /\ Running("do_domain_clone", "begin")
    /\ LET domain == domains[Top.dom] IN
       \E lookupOk \in BOOLEAN, new_name \in asked \cup {NONE}, new_uuid \in Uuid4 :
          IF ~lookupOk \/ domain.uuid \notin DOMAIN hvDomains
          THEN /\ calls' = <<DomCall("lookupByUUID", domain.uuid)>>
               /\ Raise
          ELSE /\ calls' = <<DomCall("lookupByUUID", domain.uuid),
                             DomCall("XMLDesc", domain.uuid)>>
               /\ IF new_name = NONE
                  THEN Return
                  ELSE /\ SetTop([Top EXCEPT
                             !.pc = "disks", !.new_name = new_name, !.i = 1,
                             !.root = RewriteIdentity(hvDomains[domain.uuid].desc,
                                                      new_name, new_uuid)])
                       /\ UNCHANGED status
    /\ logged' = <<>>
    /\ UNCHANGED <<hvDomains, hvActive, hvSaved, hvVolumes, domains, hist, config>>

\* lines 357-376 with do_domain_disk_clone: the loop body for the next
\* disk; `outcomes` is what libvirt may answer
CloneDisk(outcomes) ==
    /\ Running("do_domain_clone", "disks")
    /\ Top.i <= Len(Top.root.disks)
    /\ \E out \in outcomes :
          LET r == CloneLoopStep(hvVolumes, Top.root, Top.i, Top.new_name,
                                 Top.cow, out)
          IN  /\ calls' = calls \o r.calls
              /\ logged' = logged \o Log(Top.i, r.logged)
              /\ hvVolumes' = r.vols
              /\ IF r.raised
                 THEN Raise
                 ELSE /\ SetTop([Top EXCEPT !.i = @ + 1,
                                            !.root.disks[Top.i] = r.disk])
                      /\ UNCHANGED status
    /\ UNCHANGED <<hvDomains, hvActive, hvSaved, domains, hist, config>>

\* lines 378-383: defineXML, then the new Domain joins the Registry
CloneDefine ==
    /\ Running("do_domain_clone", "disks")
    /\ Top.i > Len(Top.root.disks)
    /\ LET root == Top.root
           issued == Append(calls, DomCall("defineXML", root.uuid))
           done(defined) == [op |-> "clone", dom |-> Top.dom, cow |-> Top.cow,
                             new_name |-> Top.new_name, root |-> root,
                             defined |-> defined, calls |-> issued,
                             logged |-> logged]
       IN
       \E defineOk \in BOOLEAN, readRaises \in BOOLEAN :
          /\ calls' = issued
          /\ IF ~defineOk \/ DefineRefuses(hvDomains, root)
             THEN /\ Raise
                  /\ Record(done(FALSE))
                  /\ UNCHANGED <<hvDomains, domains>>
             ELSE /\ hvDomains' = hvDomains @@
                                  (root.uuid :> [name |-> root.name, desc |-> root])
                  /\ Record(done(TRUE))
                  /\ IF ~readRaises /\ FromXmlRaises(root.meta)
                     THEN Raise /\ UNCHANGED domains
                     ELSE /\ domains' = Append(domains,
                               FromVirDomain(root.name, root.uuid, root.meta, readRaises))
                          /\ Return
    /\ UNCHANGED <<hvActive, hvSaved, hvVolumes, logged, config>>

----------------------------------------------------------------------------
(* do_domain_clone on its own: every descriptor shape, both modes *)

Disk(target, readonly, source) ==
    [target |-> target, readonly |-> readonly, source |-> source]

\* <disk> elements: read-write on each kind of volume and on a path no
\* volume backs, read-only, and the malformed shapes the code tests for
DiskShapes ==
    {Disk("vda", FALSE, p) :
        p \in {"/p1/src.qcow2", "/p2/d.qcow2", "/p1/b.img", "/p2/c.bin", "/gone.img"}}
    \cup {Disk("vda", TRUE, p) : p \in {"/p1/src.qcow2", "/gone.img"}}
    \cup {Disk(NONE, FALSE, "/p1/src.qcow2"), Disk(NOATTR, FALSE, "/p1/src.qcow2"),
          Disk("vda", FALSE, NONE), Disk("vda", FALSE, NOATTR),
          Disk(NONE, TRUE, "/p1/src.qcow2")}

DiskLists == UNION {[1..n -> DiskShapes] : n \in 0..MaxDisks}

\* the overlay payloads the source domain may carry
SourcePayloads ==
    {NoPayload, ToXml([path |-> <<"/", "a">>, labels |-> <<"l1">>])}

\* XMLDesc() of the source; `bare` leaves the name and uuid elements out
SourceDesc(bare, disks, raw) ==
    [name |-> IF bare THEN NONE ELSE "src", uuid |-> IF bare THEN 0 ELSE 1,
     disks |-> disks, meta |-> raw]

OtherDesc == [name |-> "other", uuid |-> 2, disks |-> <<>>, meta |-> NoPayload]

InitClone ==
    /\ \E disks \in DiskLists, bare \in BOOLEAN, cow \in BOOLEAN,
          raw \in SourcePayloads :
          /\ hvDomains = (1 :> [name |-> "src", desc |-> SourceDesc(bare, disks, raw)])
                         @@ (2 :> [name |-> "other", desc |-> OtherDesc])
          /\ domains = <<FromVirDomain("src", 1, raw, FALSE),
                         FromVirDomain("other", 2, NoPayload, FALSE)>>
          /\ stack = <<CloneFrame(1, cow)>>
    /\ hvActive = {}
    /\ hvSaved = {}
    /\ hvVolumes = InitVolumes
    /\ status = "running"
    /\ calls = <<>>
    /\ logged = <<>>
    /\ hist = [keep |-> MaxOps, ops |-> <<>>]
    /\ config = [exit_after_action |-> FALSE]

NextClone == CloneBegin(AskedNames) \/ CloneDisk(DiskOutcomes) \/ CloneDefine

SpecClone == InitClone /\ [][NextClone]_vars

----------------------------------------------------------------------------
(* Properties of the clone *)

\* The clones under way or handed to defineXML: the descriptor assembled so
\* far, the number n of its disks the loop has dealt with, and the calls and
\* log lines of that clone.
CloneRuns ==
    (IF stack # <<>> /\ Top.fn = "do_domain_clone" /\ Top.pc = "disks"
     THEN {[dom |-> Top.dom, cow |-> Top.cow, new_name |-> Top.new_name,
            root |-> Top.root, n |-> Top.i - 1, calls |-> calls,
            logged |-> logged, handed |-> FALSE]}
     ELSE {})
    \cup {[dom |-> hist.ops[h].dom, cow |-> hist.ops[h].cow,
           new_name |-> hist.ops[h].new_name, root |-> hist.ops[h].root,
           n |-> Len(hist.ops[h].root.disks), calls |-> hist.ops[h].calls,
           logged |-> hist.ops[h].logged, handed |-> TRUE] :
            h \in {x \in 1..Len(hist.ops) : hist.ops[x].op = "clone"}}

\* the descriptor of the domain run c clones, as libvirt holds it
SourceOf(c) == hvDomains[domains[c.dom].uuid].desc

IsCreate(call) == call.op \in {"createXML", "createXMLFrom"}

CreatesFor(c, k) == {j \in 1..Len(c.calls) : c.calls[j].disk = k /\ IsCreate(c.calls[j])}

CallsFor(c, k) == {j \in 1..Len(c.calls) : c.calls[j].disk = k}

LoggedFor(c, k) == {c.logged[j].msg : j \in {x \in 1..Len(c.logged) : c.logged[x].disk = k}}

\* disk k of the source is a read-write disk naming a volume that libvirt
\* found, and the loop of run c has dealt with it
ClonedDisk(c, k) ==
    LET orig == SourceOf(c).disks[k]
    IN  /\ k <= c.n
        /\ orig.target \notin {NONE, NOATTR}
        /\ ~orig.readonly
        /\ orig.source \notin {NONE, NOATTR}
        /\ "could not find backing storage volume" \notin LoggedFor(c, k)

FormatOf(path) == VolumeAt(InitVolumes, path).format

PoolOf(path) == VolumeAt(InitVolumes, path).pool

\* C1: in a linked clone (copy_on_write=True), every read-write disk whose
\* volume reports format qcow2 gets exactly one new volume, provisioned by
\* createXML (not createXMLFrom) in the pool of the original, with a backing
\* store whose path is the original disk's source path and whose format is
\* qcow2; the clone's disk source is then the new volume's path, which is
\* not the original path.
C1_LinkedCloneBacked ==
    \A c \in CloneRuns : \A k \in 1..c.n :
        LET orig == SourceOf(c).disks[k] IN
        (c.cow /\ ClonedDisk(c, k) /\ FormatOf(orig.source) = "qcow2") =>
            /\ Cardinality(CreatesFor(c, k)) = 1
            /\ \A j \in CreatesFor(c, k) :
                 LET call == c.calls[j] IN
                 /\ call.op = "createXML"
                 /\ call.from = NONE
                 /\ call.pool = PoolOf(orig.source)
                 /\ call.xml.backingPath = orig.source
                 /\ call.xml.backingFormat = "qcow2"
                 /\ c.root.disks[k].source = VolPath(call.pool, call.xml.name)
                 /\ Cardinality({v \in hvVolumes \ InitVolumes :
                                   v.path = c.root.disks[k].source}) = 1
            /\ c.root.disks[k].source # orig.source

\* a linked clone has provisioned the backed volume of a qcow2 disk
C1_Witness ==
    \E c \in CloneRuns : \E k \in 1..c.n :
        /\ c.cow /\ ClonedDisk(c, k)
        /\ FormatOf(SourceOf(c).disks[k].source) = "qcow2"
        /\ \E v \in hvVolumes : v.path = c.root.disks[k].source
                                /\ v.backingPath = SourceOf(c).disks[k].source

\* C2: in a heavy clone (copy_on_write=False), whatever the disks and the
\* volume formats, no volume document carries a backing store, and every
\* volume is provisioned by createXMLFrom, from the original volume, in the
\* original's pool.
C2_HeavyCloneCopies ==
    \A c \in CloneRuns :
        ~c.cow =>
            /\ \A j \in 1..Len(c.calls) :
                 LET call == c.calls[j] IN
                 IsCreate(call) =>
                    /\ call.op = "createXMLFrom"
                    /\ call.xml.backingPath = NONE
                    /\ call.xml.backingFormat = NONE
                    /\ call.from = SourceOf(c).disks[call.disk].source
                    /\ call.pool = PoolOf(call.from)
            /\ \A v \in hvVolumes \ InitVolumes :
                 /\ v.backingPath = NONE
                 /\ v.copyOf # NONE
                 /\ v.pool = PoolOf(v.copyOf)

\* a heavy clone has copied a qcow2 volume
C2_Witness ==
    \E c \in CloneRuns : \E k \in 1..c.n :
        /\ ~c.cow /\ ClonedDisk(c, k)
        /\ FormatOf(SourceOf(c).disks[k].source) = "qcow2"
        /\ \E v \in hvVolumes : v.path = c.root.disks[k].source
                                /\ v.copyOf = SourceOf(c).disks[k].source

\* C3: in a linked clone, a read-write disk whose volume format is not qcow2
\* (raw, or no format at all) is provisioned by exactly one createXMLFrom of
\* the original, without backing store; the disk source is rewritten to the
\* new volume; and the log line of each disk tells a backed volume from a
\* copied one.
C3_LinkedFallbackCopies ==
    \A c \in CloneRuns : \A k \in 1..c.n :
        LET orig == SourceOf(c).disks[k] IN
        (c.cow /\ ClonedDisk(c, k)) =>
            /\ FormatOf(orig.source) # "qcow2" =>
                /\ Cardinality(CreatesFor(c, k)) = 1
                /\ \A j \in CreatesFor(c, k) :
                     LET call == c.calls[j] IN
                     /\ call.op = "createXMLFrom"
                     /\ call.from = orig.source
                     /\ call.pool = PoolOf(orig.source)
                     /\ call.xml.backingPath = NONE
                     /\ call.xml.backingFormat = NONE
                     /\ c.root.disks[k].source = VolPath(call.pool, call.xml.name)
                /\ c.root.disks[k].source # orig.source
                /\ LoggedFor(c, k) = {"copied existing volume"}
            /\ FormatOf(orig.source) = "qcow2" =>
                LoggedFor(c, k) = {"created backed volume clone"}

\* a linked clone with a copied (non-qcow2) disk has been registered
C3_Witness ==
    \E c \in CloneRuns : \E k \in 1..c.n :
        /\ c.cow /\ c.handed /\ ClonedDisk(c, k)
        /\ FormatOf(SourceOf(c).disks[k].source) = NONE
        /\ c.root.uuid \in DOMAIN hvDomains
        /\ hvDomains[c.root.uuid].desc.disks[k].source = c.root.disks[k].source
        /\ \E v \in hvVolumes : v.path = c.root.disks[k].source
                                /\ v.copyOf = SourceOf(c).disks[k].source

\* C4: a disk marked read-only is shared: in either mode no libvirt call
\* (volume lookup, pool lookup, create) is issued for it, and the descriptor
\* assembled, handed to defineXML and registered keeps the source domain's
\* source reference for it.
C4_ReadOnlyShared ==
    \A c \in CloneRuns : \A k \in 1..Len(SourceOf(c).disks) :
        SourceOf(c).disks[k].readonly =>
            /\ CallsFor(c, k) = {}
            /\ c.root.disks[k] = SourceOf(c).disks[k]
            /\ (c.handed /\ c.root.uuid \in DOMAIN hvDomains) =>
                 hvDomains[c.root.uuid].desc.disks[k].source
                    = SourceOf(c).disks[k].source

\* a clone with a read-only disk on a volume has been registered
C4_Witness ==
    \E c \in CloneRuns : \E k \in 1..c.n :
        /\ c.handed /\ c.root.uuid \in DOMAIN hvDomains
        /\ SourceOf(c).disks[k].readonly
        /\ SourceOf(c).disks[k].target = "vda"
        /\ SourceOf(c).disks[k].source = "/p1/src.qcow2"
        /\ \E m \in 1..c.n : ClonedDisk(c, m)

\* C5 (as claimed): the descriptor handed to defineXML has the requested
\* name and a fresh uuid, different from the source's and from that of every
\* domain of the Registry, and neither the source's name nor its uuid is in
\* the name and uuid fields.
C5_CloneIdentity ==
    \A c \in CloneRuns :
        c.handed =>
            /\ c.root.name = c.new_name
            /\ c.root.uuid # domains[c.dom].uuid
            /\ \A d \in 1..Len(domains) :
                 domains[d].uuid = c.root.uuid =>
                    (d > 2 /\ domains[d].name = c.root.name)
            /\ c.root.name # domains[c.dom].name

----------------------------------------------------------------------------
(* Domain.update, src/vmm/model.py 33-42 *)

\* The calls of domain.update(conn) for a Domain with this uuid, given the
\* answers of libvirt: the lookup, then setMetadata.
UpdateCalls(uuid, lookupOk) ==
    IF lookupOk /\ uuid \in DOMAIN hvDomains
    THEN <<DomCall("lookupByUUID", uuid), DomCall("setMetadata", uuid)>>
    ELSE <<DomCall("lookupByUUID", uuid)>>

UpdateRaises(uuid, lookupOk, setOk) ==
    ~lookupOk \/ uuid \notin DOMAIN hvDomains \/ ~setOk

\* hvDomains after update() stored the encoded metadata
Updated(uuid, metadata) ==
    [hvDomains EXCEPT ![uuid].desc.meta = ToXml(metadata)]

\* domain.update(conn) at the end of a handler, for the Registry entry d
\* whose new overlay is `metadata`
Update(d, metadata, lookupOk, setOk) ==
    LET uuid == domains[d].uuid IN
    /\ calls' = UpdateCalls(uuid, lookupOk)
    /\ IF UpdateRaises(uuid, lookupOk, setOk)
       THEN Raise /\ UNCHANGED hvDomains
       ELSE Return /\ hvDomains' = Updated(uuid, metadata)

HandlerFrame(fn, dom) == [fn |-> fn, pc |-> "begin", dom |-> dom]

\* the entry the history keeps of a Registry handler
Done(op, d, arg, metadata, persisted) ==
    [op |-> op, dom |-> d, uuid |-> domains[d].uuid, arg |-> arg,
     before |-> domains[d].metadata, after |-> metadata, persisted |-> persisted]

----------------------------------------------------------------------------
(* do_domain_move, src/vmm/__init__.py 557-585 *)

\* no answer at a prompt (Fzf.ask gave None)
NoAnswer == <<NONE>>

\* lines 560-566: the folders offered, one per distinct path of the Registry
MoveOptions == {domains[k].metadata.path : k \in 1..Len(domains)}

\* `asked` is what the user may type at the new-folder prompt
DoDomainMove(asked) ==
    /\ Running("do_domain_move", "begin")
    /\ \E item \in {<<"none">>, <<"new">>} \cup {<<"folder", p>> : p \in MoveOptions},
          value \in asked \cup {NoAnswer},
          lookupOk \in BOOLEAN, setOk \in BOOLEAN :
          IF item[1] = "none" \/ (item[1] = "new" /\ value = NoAnswer)
          THEN /\ Return
               /\ UNCHANGED <<hvDomains, domains, calls, hist>>
          ELSE LET d == Top.dom
                   new_path == IF item[1] = "folder" THEN item[2] ELSE PathOf(value)
                   metadata == [domains[d].metadata EXCEPT !.path = new_path]
               IN  /\ domains' = [domains EXCEPT ![d].metadata = metadata]
                   /\ Update(d, metadata, lookupOk, setOk)
                   /\ Record(Done("move", d, new_path, metadata,
                                  ~UpdateRaises(domains[d].uuid, lookupOk, setOk)))
    /\ logged' = <<>>
    /\ UNCHANGED <<hvActive, hvSaved, hvVolumes, config>>

----------------------------------------------------------------------------
(* do_domain_add_label, do_domain_remove_label, src/vmm/__init__.py 588-636 *)

\* line 606: list(set(labels) | {new_label}), in any order
AddLabel(labels, new_label) == SetToSeqs(Range(labels) \cup {new_label})

\* mutant: removing a label drops every label of the domain
RemoveLabel_DropsAll(labels, label) == {<<>>}

\* line 631: [l for l in set(labels) if l != label], in any order
RemoveLabel(labels, label) == SetToSeqs(Range(labels) \ {label})

\* `asked` is what the user may type at the label prompt
DoDomainAddLabel(asked) ==
    /\ Running("do_domain_add_label", "begin")
    /\ \E new_label \in asked \cup {NONE},
          lookupOk \in BOOLEAN, setOk \in BOOLEAN :
          IF new_label = NONE
          THEN /\ Return
               /\ UNCHANGED <<hvDomains, domains, calls, hist>>
          ELSE LET d == Top.dom IN
               \E labels \in AddLabel(domains[d].metadata.labels, new_label) :
                  LET metadata == [domains[d].metadata EXCEPT !.labels = labels]
                  IN  /\ domains' = [domains EXCEPT ![d].metadata = metadata]
                      /\ Update(d, metadata, lookupOk, setOk)
                      /\ Record(Done("add_label", d, new_label, metadata,
                                     ~UpdateRaises(domains[d].uuid, lookupOk, setOk)))
    /\ logged' = <<>>
    /\ UNCHANGED <<hvActive, hvSaved, hvVolumes, config>>

DoDomainRemoveLabel ==
    /\ Running("do_domain_remove_label", "begin")
    /\ LET d == Top.dom
           current == domains[d].metadata.labels
       IN
       \E label \in Range(current) \cup {NONE},
          lookupOk \in BOOLEAN, setOk \in BOOLEAN :
          IF current = <<>> \/ label = NONE
          THEN /\ Return
               /\ UNCHANGED <<hvDomains, domains, calls, hist>>
          ELSE \E labels \in RemoveLabel(current, label) :
                  LET metadata == [domains[d].metadata EXCEPT !.labels = labels]
                  IN  /\ domains' = [domains EXCEPT ![d].metadata = metadata]
                      /\ Update(d, metadata, lookupOk, setOk)
                      /\ Record(Done("remove_label", d, label, metadata,
                                     ~UpdateRaises(domains[d].uuid, lookupOk, setOk)))
    /\ logged' = <<>>
    /\ UNCHANGED <<hvActive, hvSaved, hvVolumes, config>>

----------------------------------------------------------------------------
(* interact_with_vm, src/vmm/__init__.py 183-320 *)

\* mutant: the saved image is looked at before the running flag
StateActions_SavedFirst(active, saved) ==
    IF saved
    THEN <<"ACTION_RESTORE_STATE", "ACTION_REMOVE_STATE", "ACTION_CLEAN_START">>
    ELSE IF active
    THEN <<"ACTION_OPEN", "ACTION_LOOKING_GLASS", "ACTION_SHUTDOWN",
           "ACTION_FORCE_OFF", "ACTION_SAVE_STATE">>
    ELSE <<"ACTION_START">>

\* lines 214-229: the actions of the domain's state
StateActions(active, saved) ==
    IF active
    THEN <<"ACTION_OPEN", "ACTION_LOOKING_GLASS", "ACTION_SHUTDOWN",
           "ACTION_FORCE_OFF", "ACTION_SAVE_STATE">>
    ELSE IF saved
    THEN <<"ACTION_RESTORE_STATE", "ACTION_REMOVE_STATE", "ACTION_CLEAN_START">>
    ELSE <<"ACTION_START">>

\* lines 231-242: the actions of every state
AlwaysActions ==
    <<"ACTION_LINKED_CLONE", "ACTION_HEAVY_CLONE", "ACTION_SNAPSHOT",
      "ACTION_RESTORE_SNAPSHOT", "ACTION_MOVE", "ACTION_ADD_LABEL",
      "ACTION_REMOVE_LABEL", "ACTION_EDIT_XML">>

AllActions ==
    Range(StateActions(TRUE, FALSE)) \cup Range(StateActions(FALSE, TRUE))
    \cup Range(StateActions(FALSE, FALSE)) \cup Range(AlwaysActions)

InteractFrame(dom) ==
    [fn |-> "interact_with_vm", pc |-> "loop", dom |-> dom, actions |-> <<>>,
     domInfo |-> 0, selected |-> NONE]

\* lines 204-242: the head of the loop: the lookup, the state queries and
\* the list of actions
InteractClassify ==
    /\ Running("interact_with_vm", "loop")
    /\ LET uuid == domains[Top.dom].uuid IN
       \E lookupOk \in BOOLEAN :
          IF ~lookupOk \/ uuid \notin DOMAIN hvDomains
          THEN /\ calls' = <<DomCall("lookupByUUID", uuid)>>
               /\ logged' = <<[disk |-> 0, msg |-> "failed to lookup domain"]>>
               /\ Return
          ELSE /\ calls' = <<DomCall("lookupByUUID", uuid), DomCall("isActive", uuid)>>
                           \o (IF uuid \in hvActive THEN <<>>
                               ELSE <<DomCall("hasManagedSaveImage", uuid)>>)
               /\ logged' = <<>>
               /\ SetTop([Top EXCEPT
                     !.pc = "prompt", !.domInfo = uuid, !.selected = NONE,
                     !.actions = StateActions(uuid \in hvActive, uuid \in hvSaved)
                                 \o AlwaysActions])
               /\ UNCHANGED status
    /\ UNCHANGED <<hvDomains, hvActive, hvSaved, hvVolumes, domains, hist, config>>

\* mutant: clean start discards the saved image itself before the boot
LifecycleCalls_DiscardFirst(selected) ==
    CASE selected \in {"ACTION_START", "ACTION_RESTORE_STATE"} -> <<"create">>
      [] selected = "ACTION_CLEAN_START"
            -> <<"managedSaveRemove", "createWithFlags(FORCE_BOOT)">>
      [] selected = "ACTION_SHUTDOWN" -> <<"shutdown">>
      [] selected = "ACTION_FORCE_OFF" -> <<"destroy">>
      [] selected = "ACTION_SAVE_STATE" -> <<"managedSave">>
      [] selected = "ACTION_REMOVE_STATE" -> <<"managedSaveRemove">>

\* lines 248-265: the libvirt calls of a lifecycle action, in order
LifecycleCalls(selected) ==
    CASE selected \in {"ACTION_START", "ACTION_RESTORE_STATE"} -> <<"create">>
      [] selected = "ACTION_CLEAN_START" -> <<"createWithFlags(FORCE_BOOT)">>
      [] selected = "ACTION_SHUTDOWN" -> <<"shutdown">>
      [] selected = "ACTION_FORCE_OFF" -> <<"destroy">>
      [] selected = "ACTION_SAVE_STATE" -> <<"managedSave">>
      [] selected = "ACTION_REMOVE_STATE" -> <<"managedSaveRemove">>

LifecycleActions ==
    {"ACTION_START", "ACTION_RESTORE_STATE", "ACTION_CLEAN_START",
     "ACTION_SHUTDOWN", "ACTION_FORCE_OFF", "ACTION_SAVE_STATE",
     "ACTION_REMOVE_STATE"}

\* libvirt refuses to start a running domain, and to stop or save one that
\* is not running
HvRefuses(op, uuid, active) ==
    CASE op \in {"create", "createWithFlags(FORCE_BOOT)"} -> uuid \in active
      [] op \in {"shutdown", "destroy", "managedSave"} -> uuid \notin active
      [] OTHER -> FALSE

\* the running domains after a successful call
HvActiveAfter(op, uuid, active) ==
    CASE op \in {"create", "createWithFlags(FORCE_BOOT)"} -> active \cup {uuid}
      [] op \in {"destroy", "managedSave"} -> active \ {uuid}
      [] OTHER -> active

\* the managed save images after a successful call: a start consumes the
\* image (restoring from it, or discarding it under FORCE_BOOT)
HvSavedAfter(op, uuid, saved) ==
    CASE op \in {"create", "createWithFlags(FORCE_BOOT)", "managedSaveRemove"}
            -> saved \ {uuid}
      [] op = "managedSave" -> saved \cup {uuid}
      [] OTHER -> saved

\* The calls ops[k..] issued in order on domain uuid; call number failAt
\* (if any) fails, as does a call libvirt refuses, and ends the sequence
\* with an exception.
RECURSIVE RunCalls(_, _, _, _, _, _)
RunCalls(ops, k, uuid, active, saved, failAt) ==
    IF k > Len(ops)
    THEN [active |-> active, saved |-> saved, issued |-> <<>>, raised |-> FALSE]
    ELSE IF k = failAt \/ HvRefuses(ops[k], uuid, active)
    THEN [active |-> active, saved |-> saved,
          issued |-> <<DomCall(ops[k], uuid)>>, raised |-> TRUE]
    ELSE LET r == RunCalls(ops, k + 1, uuid, HvActiveAfter(ops[k], uuid, active),
                           HvSavedAfter(ops[k], uuid, saved), failAt)
         IN  [r EXCEPT !.issued = <<DomCall(ops[k], uuid)>> \o @]

\* the handler a menu action calls (lines 266-275, 314-317)
HandlerOf(selected) ==
    CASE selected = "ACTION_MOVE" -> "do_domain_move"
      [] selected = "ACTION_ADD_LABEL" -> "do_domain_add_label"
      [] selected = "ACTION_REMOVE_LABEL" -> "do_domain_remove_label"
      [] selected = "ACTION_RESTORE_SNAPSHOT" -> "do_domain_revert"
      [] selected = "ACTION_EDIT_XML" -> "do_domain_edit"
      [] selected \in {"ACTION_LINKED_CLONE", "ACTION_HEAVY_CLONE"} -> "do_domain_clone"

\* lines 244-317: the prompt and the dispatch of the selection; the user
\* picks one of the offered actions that is in `selectable`, or nothing
InteractSelect(selectable) ==
    /\ Running("interact_with_vm", "prompt")
    /\ \E selected \in (Range(Top.actions) \cap selectable) \cup {NONE} :
          LET uuid == Top.domInfo
              chosen == [Top EXCEPT !.selected = selected]
              after == [chosen EXCEPT !.pc = "after"]
          IN
          IF selected = NONE
          THEN /\ Return
               /\ UNCHANGED <<hvActive, hvSaved, calls, logged>>
          ELSE IF selected \in LifecycleActions
          THEN \E failAt \in 0..Len(LifecycleCalls(selected)) :
                  LET r == RunCalls(LifecycleCalls(selected), 1, uuid, hvActive,
                                    hvSaved, failAt)
                  IN  /\ calls' = calls \o r.issued
                      /\ hvActive' = r.active
                      /\ hvSaved' = r.saved
                      /\ IF r.raised
                         THEN /\ status' = "crashed"
                              /\ SetTop(chosen)
                              /\ UNCHANGED logged
                         ELSE /\ logged' = <<[disk |-> 0, msg |-> "notify " \o selected]>>
                              /\ SetTop(after)
                              /\ UNCHANGED status
          ELSE IF selected \in {"ACTION_OPEN", "ACTION_LOOKING_GLASS"}
          THEN /\ status' = "exited"
               /\ SetTop(chosen)
               /\ logged' = <<[disk |-> 0, msg |-> "notify " \o selected]>>
               /\ UNCHANGED <<hvActive, hvSaved, calls>>
          ELSE IF selected = "ACTION_SNAPSHOT"
          THEN /\ SetTop(after)
               /\ UNCHANGED <<status, hvActive, hvSaved, calls, logged>>
          ELSE /\ stack' = [stack EXCEPT ![Len(stack)] = after]
                           \o <<IF HandlerOf(selected) = "do_domain_clone"
                                THEN CloneFrame(Top.dom, selected = "ACTION_LINKED_CLONE")
                                ELSE HandlerFrame(HandlerOf(selected), Top.dom)>>
               /\ UNCHANGED <<status, hvActive, hvSaved, calls, logged>>
    /\ UNCHANGED <<hvDomains, hvVolumes, domains, hist, config>>

\* variant: after the action the menu built before it is shown again
InteractAfter_KeepsMenu ==
    /\ Running("interact_with_vm", "after")
    /\ IF config.exit_after_action
       THEN status' = "exited" /\ UNCHANGED stack
       ELSE SetTop([Top EXCEPT !.pc = "prompt", !.selected = NONE]) /\ UNCHANGED status
    /\ UNCHANGED <<hvDomains, hvActive, hvSaved, hvVolumes, domains, calls,
                   logged, hist, config>>

\* lines 319-320: after the action, leave or loop
InteractAfter ==
    /\ Running("interact_with_vm", "after")
    /\ IF config.exit_after_action
       THEN status' = "exited" /\ UNCHANGED stack
       ELSE SetTop([Top EXCEPT !.pc = "loop"]) /\ UNCHANGED status
    /\ UNCHANGED <<hvDomains, hvActive, hvSaved, hvVolumes, domains, calls,
                   logged, hist, config>>

\* the domains whose state other libvirt clients change while the menu is up
Watched == {1}

\* another libvirt client (or the guest) starts, stops or saves a domain, or
\* discards its saved image
EnvChange ==
    /\ status = "running"
    /\ \E uuid \in Watched \cap DOMAIN hvDomains, active \in BOOLEAN, saved \in BOOLEAN :
          /\ hvActive' = IF active THEN hvActive \cup {uuid} ELSE hvActive \ {uuid}
          /\ hvSaved' = IF saved THEN hvSaved \cup {uuid} ELSE hvSaved \ {uuid}
          /\ <<hvActive', hvSaved'>> # <<hvActive, hvSaved>>
    /\ UNCHANGED <<hvDomains, hvVolumes, domains, stack, status, calls, logged,
                   hist, config>>

----------------------------------------------------------------------------
(* The action menu of one domain: interact_with_vm with its handlers *)

\* the source domain of the menu session: a qcow2 system disk and a
\* read-only installation medium
MenuDisks == <<Disk("vda", FALSE, "/p1/src.qcow2"), Disk("vda", TRUE, "/gone.img")>>

\* the menu actions the user of this specification selects
MenuSelects == AllActions \ {"ACTION_RESTORE_SNAPSHOT", "ACTION_EDIT_XML"}

Init ==
    /\ hvDomains = (1 :> [name |-> "src", desc |-> SourceDesc(FALSE, MenuDisks, NoPayload)])
                   @@ (2 :> [name |-> "other", desc |-> OtherDesc])
    /\ domains = <<FromVirDomain("src", 1, NoPayload, FALSE),
                   FromVirDomain("other", 2, NoPayload, FALSE)>>
    /\ hvActive \in SUBSET Watched
    /\ hvSaved \in SUBSET Watched
    /\ hvVolumes = InitVolumes
    /\ stack = <<InteractFrame(1)>>
    /\ status = "running"
    /\ calls = <<>>
    /\ logged = <<>>
    /\ hist = [keep |-> MenuOps, ops |-> <<>>]
    /\ config \in [exit_after_action : BOOLEAN]

Next ==
    \/ InteractClassify
    \/ InteractSelect(MenuSelects)
    \/ InteractAfter
    \/ EnvChange
    \/ DoDomainMove({<<"/", "a">>})
    \/ DoDomainAddLabel({"l1"})
    \/ DoDomainRemoveLabel
    \/ CloneBegin({"clone1"})
    \/ CloneDisk({"ok", "create_raises"})
    \/ CloneDefine

Spec == Init /\ [][Next]_vars

----------------------------------------------------------------------------
(* Properties of the action menu *)

EightAlways ==
    {"ACTION_LINKED_CLONE", "ACTION_HEAVY_CLONE", "ACTION_SNAPSHOT",
     "ACTION_RESTORE_SNAPSHOT", "ACTION_MOVE", "ACTION_ADD_LABEL",
     "ACTION_REMOVE_LABEL", "ACTION_EDIT_XML"}

RunningGroup ==
    {"ACTION_SHUTDOWN", "ACTION_FORCE_OFF", "ACTION_SAVE_STATE", "ACTION_OPEN",
     "ACTION_LOOKING_GLASS"}

SavedGroup == {"ACTION_RESTORE_STATE", "ACTION_REMOVE_STATE", "ACTION_CLEAN_START"}

StoppedGroup == {"ACTION_START"}

\* the menu of interact_with_vm is on screen
AtPrompt == stack # <<>> /\ Top.fn = "interact_with_vm" /\ Top.pc = "prompt"

\* C6: every render of the domain menu offers exactly the group of the
\* domain's state at that render plus the eight always-available actions:
\* RUNNING (active, with or without a save image) gives shutdown, force-off,
\* save-state and the two viewers; SAVED (not active, save image) gives
\* restore-state, discard-save, clean-start; STOPPED gives start.
C6_ClassifierActionSets ==
    [][ (Running("interact_with_vm", "loop") /\ AtPrompt') =>
           LET uuid == domains[Top.dom].uuid
               group == IF uuid \in hvActive THEN RunningGroup
                        ELSE IF uuid \in hvSaved THEN SavedGroup
                        ELSE StoppedGroup
               offered == stack'[Len(stack')].actions
           IN  /\ Range(offered) = group \cup EightAlways
               /\ Len(offered) = Cardinality(group) + 8 ]_vars

\* the menu of a domain that is running and has a save image is on screen
C6_Witness ==
    /\ AtPrompt
    /\ Top.domInfo \in hvActive \cap hvSaved
    /\ "ACTION_SHUTDOWN" \in Range(Top.actions)

\* the libvirt calls of the action selected in the menu, after those of the
\* classification
ActionCalls ==
    SelectSeq(calls, LAMBDA c :
        c.op \notin {"lookupByUUID", "isActive", "hasManagedSaveImage"})

CleanStartSelected ==
    stack # <<>> /\ Top.fn = "interact_with_vm" /\ Top.selected = "ACTION_CLEAN_START"

\* C7 (as claimed): clean start first discards the managed save image and
\* issues the forced boot only after the discard succeeded; when the
\* discard fails no boot call is issued and the save image is still there.
C7_DiscardBeforeBoot ==
    CleanStartSelected =>
        /\ ActionCalls # <<>>
        /\ ActionCalls[1].op = "managedSaveRemove"
        /\ \A j \in 1..Len(ActionCalls) :
              ActionCalls[j].op = "createWithFlags(FORCE_BOOT)" => j = 2
        /\ (status = "crashed" /\ Len(ActionCalls) = 1) => Top.domInfo \in hvSaved

\* C7 (amended): clean start issues one libvirt call only, the forced boot
\* createWithFlags(VIR_DOMAIN_START_FORCE_BOOT), on the domain looked up for
\* the menu; no managedSaveRemove is issued for it.
C7_CleanStartSingleCall ==
    CleanStartSelected =>
        ActionCalls = <<DomCall("createWithFlags(FORCE_BOOT)", Top.domInfo)>>

\* clean start has been selected on a saved domain and the boot succeeded
C7_Witness ==
    /\ CleanStartSelected
    /\ Top.pc = "after"
    /\ Top.domInfo \in hvActive
    /\ Top.domInfo \notin hvSaved

----------------------------------------------------------------------------
(* browse_by_path, src/vmm/__init__.py 121-152 *)

BrowseFrame(path) ==
    [fn |-> "browse_by_path", pc |-> "loop", path |-> path, folders |-> {},
     items |-> {}]

\* lines 125-130: the set of str(relative path) of the domains below `path`
Children(doms, path) ==
    {PathStr(RelativeTo(doms[k].metadata.path, path)) :
        k \in {j \in 1..Len(doms) :
                 /\ path # doms[j].metadata.path
                 /\ IsRelativeTo(doms[j].metadata.path, path)}}

\* lines 132-134: one FolderItem(Path(child)) per child (the order of the
\* entries on screen is not part of the state)
FolderItems(doms, path) == {PathOf(child) : child \in Children(doms, path)}

\* lines 135-144: one DomainItem per domain located at `path`
DomainItems(doms, path) == {k \in 1..Len(doms) : doms[k].metadata.path = path}

\* lines 124-146: the options of one turn of the loop go on screen
BrowseRender ==
    /\ Running("browse_by_path", "loop")
    /\ SetTop([Top EXCEPT !.pc = "prompt",
                          !.folders = FolderItems(domains, Top.path),
                          !.items = DomainItems(domains, Top.path)])
    /\ UNCHANGED <<hvDomains, hvActive, hvSaved, hvVolumes, domains, status,
                   calls, logged, hist, config>>

\* lines 146-152: nothing selected returns, a folder is browsed, a domain
\* gets its action menu; the loop goes on when the callee returns
BrowseSelect ==
    /\ Running("browse_by_path", "prompt")
    /\ \E selected \in {<<"none">>} \cup {<<"folder", f>> : f \in Top.folders}
                       \cup {<<"domain", k>> : k \in Top.items} :
          LET again == [stack EXCEPT ![Len(stack)].pc = "loop"] IN
          CASE selected[1] = "none" -> Return
            [] selected[1] = "folder" ->
                  /\ stack' = again \o <<BrowseFrame(JoinPath(Top.path, selected[2]))>>
                  /\ UNCHANGED status
            [] selected[1] = "domain" ->
                  /\ stack' = again \o <<InteractFrame(selected[2])>>
                  /\ UNCHANGED status
    /\ UNCHANGED <<hvDomains, hvActive, hvSaved, hvVolumes, domains, calls,
                   logged, hist, config>>

----------------------------------------------------------------------------
(* The Registry browsed by folder, with domains moved between folders *)

\* the overlay payloads the hypervisor holds when the program starts
RegistryPayloads ==
    {NoPayload} \cup
    {[kind |-> "vmm", path |-> p, labels |-> <<>>] :
        p \in {<<"/", "a">>, <<"/", "a", "/", "b">>}}

\* what the user of this specification types at the new-folder prompt
AskedFolders == {<<"/", "a">>, <<"/", "a", "/", "b", "/">>, <<"b">>, <<>>}

InitRegistry ==
    /\ \E raw1 \in RegistryPayloads, raw2 \in RegistryPayloads, first \in {1, 2} :
          /\ hvDomains = (1 :> [name |-> "src", desc |-> SourceDesc(FALSE, <<>>, raw1)])
                         @@ (2 :> [name |-> "other", desc |-> [OtherDesc EXCEPT !.meta = raw2]])
          /\ domains = IF first = 1
                       THEN <<FromVirDomain("src", 1, raw1, FALSE),
                              FromVirDomain("other", 2, raw2, FALSE)>>
                       ELSE <<FromVirDomain("other", 2, raw2, FALSE),
                              FromVirDomain("src", 1, raw1, FALSE)>>
    /\ hvActive = {}
    /\ hvSaved = {}
    /\ hvVolumes = InitVolumes
    /\ stack = <<BrowseFrame(ROOT)>>
    /\ status = "running"
    /\ calls = <<>>
    /\ logged = <<>>
    /\ hist = [keep |-> MenuOps, ops |-> <<>>]
    /\ config = [exit_after_action |-> FALSE]

NextRegistry ==
    \/ BrowseRender
    \/ BrowseSelect
    \/ InteractClassify
    \/ InteractSelect({"ACTION_MOVE"})
    \/ InteractAfter
    \/ DoDomainMove(AskedFolders)

SpecRegistry == InitRegistry /\ [][NextRegistry]_vars

----------------------------------------------------------------------------
(* The labels of one domain, added and removed from its action menu *)

\* the <label> elements the hypervisor holds when the program starts
LabelPayloads ==
    {NoPayload} \cup
    {[kind |-> "vmm", path |-> <<"/">>, labels |-> l] :
        l \in {<<"l1">>, <<"l2", "l1">>, <<"l1", "l1">>}}

\* what the user of this specification types at the label prompt
AskedLabels == {"l1", "l2"}

InitLabels ==
    /\ \E raw \in LabelPayloads :
          /\ hvDomains = (1 :> [name |-> "src", desc |-> SourceDesc(FALSE, <<>>, raw)])
                         @@ (2 :> [name |-> "other", desc |-> OtherDesc])
          /\ domains = <<FromVirDomain("src", 1, raw, FALSE),
                         FromVirDomain("other", 2, NoPayload, FALSE)>>
    /\ hvActive = {}
    /\ hvSaved = {}
    /\ hvVolumes = InitVolumes
    /\ stack = <<InteractFrame(1)>>
    /\ status = "running"
    /\ calls = <<>>
    /\ logged = <<>>
    /\ hist = [keep |-> MaxOps, ops |-> <<>>]
    /\ config = [exit_after_action |-> FALSE]

NextLabels ==
    \/ InteractClassify
    \/ InteractSelect({"ACTION_ADD_LABEL", "ACTION_REMOVE_LABEL"})
    \/ InteractAfter
    \/ DoDomainAddLabel(AskedLabels)
    \/ DoDomainRemoveLabel

SpecLabels == InitLabels /\ [][NextLabels]_vars

----------------------------------------------------------------------------
(* Properties of the Registry *)

\* the Registry entries located at `path`
DomainsAt(path) == {k \in 1..Len(domains) : domains[k].metadata.path = path}

\* the overlay the hypervisor holds for a domain, as the next start of the
\* program would read it
HvOverlay(uuid) == FromVirDomain("", uuid, hvDomains[uuid].desc.meta, FALSE).metadata

\* the latest completed handler is `op`
LatestIs(op) == hist.ops # <<>> /\ Last(hist.ops).op = op

\* C8 (as claimed): after a successful move to new_path the domain is among
\* the domains at new_path and not among those at its old path; after a
\* move whose persist call failed the in-memory path is the one before the
\* move and the Registry entry matches the overlay the hypervisor holds.
C8_MoveWithRollback ==
    LatestIs("move") =>
        LET e == Last(hist.ops)
            old == e.before.path
        IN  /\ e.persisted =>
                  /\ e.dom \in DomainsAt(e.arg)
                  /\ e.arg # old => e.dom \notin DomainsAt(old)
            /\ ~e.persisted =>
                  /\ domains[e.dom].metadata.path = old
                  /\ domains[e.dom].metadata = HvOverlay(domains[e.dom].uuid)

\* the labels of a domain after the k-th handler of the history, when the
\* next handler of the history (if any) is on the same domain
LabelsAfter(k) ==
    IF k < Len(hist.ops) THEN Range(hist.ops[k + 1].before.labels)
    ELSE Range(domains[hist.ops[k].dom].metadata.labels)

\* handlers k and k+1 of the history are `first` then `second`, on the same
\* domain and with the same label
LabelPair(k, first, second) ==
    /\ k + 1 <= Len(hist.ops)
    /\ hist.ops[k].op = first
    /\ hist.ops[k + 1].op = second
    /\ hist.ops[k].dom = hist.ops[k + 1].dom
    /\ hist.ops[k].arg = hist.ops[k + 1].arg

\* C9 (as claimed): for every label set and every label, add_label(label)
\* followed by remove_label(label) leaves the label set equal to the one
\* before the add; adding a label twice gives the set adding it once gives.
C9_LabelRoundTrip ==
    \A k \in 1..Len(hist.ops) :
        /\ LabelPair(k, "add_label", "remove_label") =>
              LabelsAfter(k + 1) = Range(hist.ops[k].before.labels)
        /\ LabelPair(k, "add_label", "add_label") =>
              LabelsAfter(k + 1) = LabelsAfter(k)

\* C9 (amended): add_label(label) followed by remove_label(label) leaves the
\* label set equal to the one before the add when the label was not in that
\* set, and equal to that set without the label when it was; adding a label
\* twice gives the set adding it once gives.
C9_LabelRoundTripFresh ==
    \A k \in 1..Len(hist.ops) :
        /\ LabelPair(k, "add_label", "remove_label") =>
              LET before == Range(hist.ops[k].before.labels)
                  label == hist.ops[k].arg
              IN  /\ label \notin before => LabelsAfter(k + 1) = before
                  /\ label \in before => LabelsAfter(k + 1) = before \ {label}
        /\ LabelPair(k, "add_label", "add_label") =>
              /\ LabelsAfter(k + 1) = LabelsAfter(k)
              /\ LabelsAfter(k) = Range(hist.ops[k].before.labels) \cup {hist.ops[k].arg}

\* a label the domain did not have was added to a domain with labels and
\* removed again, both stored by the hypervisor
C9_Witness ==
    /\ LabelPair(1, "add_label", "remove_label")
    /\ hist.ops[1].arg \notin Range(hist.ops[1].before.labels)
    /\ hist.ops[1].before.labels # <<>>
    /\ hist.ops[1].persisted
    /\ hist.ops[2].persisted
    /\ status = "running"

\* the browse menu is on screen
BrowsePrompt == stack # <<>> /\ Top.fn = "browse_by_path" /\ Top.pc = "prompt"

\* the overlay paths strictly below `path`
DescendantsOf(path) ==
    {domains[k].metadata.path : k \in {j \in 1..Len(domains) :
        /\ domains[j].metadata.path # path
        /\ IsRelativeTo(domains[j].metadata.path, path)}}

\* C10 (as claimed): the folder entries shown at path P are exactly the
\* single next path components of the domains whose overlay path is a
\* strict descendant of P; a domain at P contributes no folder and is shown
\* as a domain.
C10_FolderCompression ==
    BrowsePrompt =>
        /\ Top.folders = {<<RelativeTo(p, Top.path)[1]>> : p \in DescendantsOf(Top.path)}
        /\ Top.items = DomainsAt(Top.path)

----------------------------------------------------------------------------
(* main and main_menu, src/vmm/__init__.py 50-102 *)

\* conn.listAllDomains(): the handles of the hypervisor's domains
ListAllDomains == SetToSeqs(DOMAIN hvDomains)

MainFrame(handles) == [fn |-> "main", pc |-> "load", handles |-> handles]

MainMenuFrame == [fn |-> "main_menu", pc |-> "loop"]

\* the program is started: libvirt.open succeeded and listAllDomains
\* answered
MainBegin(exit) ==
    /\ domains = <<>>
    /\ status = "running"
    /\ calls = <<>>
    /\ logged = <<>>
    /\ config = [exit_after_action |-> exit]
    /\ \E handles \in ListAllDomains : stack = <<MainFrame(handles)>>

\* lines 64-66: Domain.from_virdomain of the next handle of the list; the
\* metadata read raising libvirtError is caught, from_xml raising is not
MainLoad ==
    /\ Running("main", "load")
    /\ Len(domains) < Len(Top.handles)
    /\ LET uuid == Top.handles[Len(domains) + 1]
           raw == hvDomains[uuid].desc.meta
       IN  \E readRaises \in BOOLEAN :
              /\ calls' = Append(calls, DomCall(IF readRaises THEN "metadata raises"
                                                ELSE "metadata", uuid))
              /\ IF ~readRaises /\ raw.kind \notin {"absent", "empty"} /\ FromXmlRaises(raw)
                 THEN Raise /\ UNCHANGED domains
                 ELSE /\ domains' = Append(domains,
                            FromVirDomain(hvDomains[uuid].name, uuid, raw, readRaises))
                      /\ UNCHANGED <<stack, status>>
    /\ UNCHANGED <<hvDomains, hvActive, hvSaved, hvVolumes, logged, hist, config>>

\* lines 68-70: the list is complete, main_menu(conn, domains)
MainStart ==
    /\ Running("main", "load")
    /\ Len(domains) = Len(Top.handles)
    /\ stack' = <<[Top EXCEPT !.pc = "end"], MainMenuFrame>>
    /\ UNCHANGED <<hvDomains, hvActive, hvSaved, hvVolumes, domains, status,
                   calls, logged, hist, config>>

\* main_menu returned: main returns
MainEnd ==
    /\ Running("main", "end")
    /\ Return
    /\ UNCHANGED <<hvDomains, hvActive, hvSaved, hvVolumes, domains, calls,
                   logged, hist, config>>

\* lines 81-102: one turn of the main menu. The options are built with one
\* lookup and isActive per domain (a failing lookup is not caught); the
\* user selects nothing, the create entry, the folder browser or one of the
\* active domains.
MainMenu(selectable) ==
    /\ Running("main_menu", "loop")
    /\ \E failAt \in 0..Len(domains) :
          LET looked == IF failAt = 0 THEN Len(domains) ELSE failAt
              found(k) == failAt # k /\ domains[k].uuid \in DOMAIN hvDomains
              raised == \E k \in 1..looked : ~found(k)
              active == {k \in 1..Len(domains) : domains[k].uuid \in hvActive}
          IN  /\ calls' = [k \in 1..looked |-> DomCall("lookupByUUID", domains[k].uuid)]
              /\ IF raised
                 THEN Raise
                 ELSE \E selected \in ({<<"none">>, <<"create">>, <<"path">>}
                                       \cup {<<"domain", k>> : k \in active})
                                      \cap selectable :
                         CASE selected[1] = "none" -> Return
                           [] selected[1] = "create" -> UNCHANGED <<stack, status>>
                           [] selected[1] = "path" ->
                                 /\ stack' = Append(stack, BrowseFrame(ROOT))
                                 /\ UNCHANGED status
                           [] selected[1] = "domain" ->
                                 /\ stack' = Append(stack, InteractFrame(selected[2]))
                                 /\ UNCHANGED status
    /\ logged' = <<>>
    /\ UNCHANGED <<hvDomains, hvActive, hvSaved, hvVolumes, domains, hist, config>>

\* the user starts the program again after it ended
Relaunch ==
    /\ status # "running"
    /\ hist.runs < MaxRuns
    /\ hist' = [hist EXCEPT !.runs = @ + 1]
    /\ \E handles \in ListAllDomains : stack' = <<MainFrame(handles)>>
    /\ status' = "running"
    /\ domains' = <<>>
    /\ calls' = <<>>
    /\ logged' = <<>>
    /\ UNCHANGED <<hvDomains, hvActive, hvSaved, hvVolumes, config>>

----------------------------------------------------------------------------
(* A session from its start: the Registry is loaded, browsed and changed,
   and the program is started again *)

\* what dom.metadata() can hand back: nothing, an empty string, a vmm
\* element, something ManagerMetadata.from_xml rejects
BadPayload == [kind |-> "garbage", path |-> <<>>, labels |-> <<>>]

\* the overlay of a domain the user moved to the relative folder "x"
AsidePayload == [kind |-> "vmm", path |-> <<"x">>, labels |-> <<>>]

LoadPayloads ==
    {NoPayload,
     [kind |-> "empty", path |-> <<>>, labels |-> <<>>],
     BadPayload,
     [kind |-> "vmm", path |-> <<"/", "a">>, labels |-> <<"l2", "l1">>]}

InitSession ==
    /\ \E raw1 \in LoadPayloads, raw2 \in {BadPayload, AsidePayload} :
          hvDomains = (1 :> [name |-> "src", desc |-> SourceDesc(FALSE, <<>>, raw1)])
                      @@ (2 :> [name |-> "other", desc |-> [OtherDesc EXCEPT !.meta = raw2]])
    /\ hvActive = {}
    /\ hvSaved = {}
    /\ hvVolumes = InitVolumes
    /\ hist = [keep |-> MenuOps, ops |-> <<>>, runs |-> 1]
    /\ MainBegin(FALSE)

NextSession ==
    \/ MainLoad
    \/ MainStart
    \/ MainEnd
    \/ MainMenu({<<"none">>, <<"path">>})
    \/ BrowseRender
    \/ BrowseSelect
    \/ InteractClassify
    \/ InteractSelect({"ACTION_MOVE"})
    \/ InteractAfter
    \/ DoDomainMove({<<"c", "/", ".", "/", "d">>})
    \/ Relaunch

SpecSession == InitSession /\ [][NextSession]_vars

----------------------------------------------------------------------------
(* Properties of loading the Registry *)

\* main is building the Registry from the handles
Loading == stack # <<>> /\ Top.fn = "main" /\ Top.pc = "load"

\* C11 (as claimed): building a Domain from a handle never fails because of
\* the overlay payload: a metadata read that raises, and an absent, empty or
\* unparseable payload, give the default overlay, so the load never ends
\* the program and every handle gets its Domain.
C11_TolerantLoad ==
    Loading =>
        /\ status # "crashed"
        /\ \A k \in 1..Len(domains) :
              LET raw == hvDomains[Top.handles[k]].desc.meta IN
              /\ domains[k].uuid = Top.handles[k]
              /\ (calls[k].op = "metadata raises"
                  \/ raw.kind \in {"absent", "empty", "garbage"})
                    => domains[k].metadata = DefaultMetadata

----------------------------------------------------------------------------
(* Properties of the clone loop under failures *)

\* the clone has been ended by an exception raised in its disk loop or at
\* its define step
CloneCrashed ==
    /\ status = "crashed"
    /\ stack # <<>>
    /\ Top.fn = "do_domain_clone"
    /\ Top.pc = "disks"

ProvisioningOps ==
    {"storageVolLookupByPath", "storagePoolLookupByVolume", "volXMLDesc",
     "createXML", "createXMLFrom"}

\* the disk the loop was dealing with when the clone was ended
CurrentDisk == Top.root.disks[Top.i]

IsMalformed(disk) ==
    \/ disk.target \in {NONE, NOATTR}
    \/ (~disk.readonly /\ disk.source \in {NONE, NOATTR})

\* C13 (as claimed): a provisioning failure on one read-write disk (volume
\* lookup, pool lookup or volume create reporting an error) abandons the
\* clone of that disk alone: it never ends the clone, the remaining disks
\* are attempted and the define call is issued; the abandoned disk keeps its
\* source.
C13_PartialFailureTolerant ==
    /\ ~(/\ CloneCrashed
         /\ Top.i <= Len(Top.root.disks)
         /\ calls # <<>>
         /\ Last(calls).disk = Top.i
         /\ Last(calls).op \in ProvisioningOps)
    /\ \A c \in CloneRuns :
          c.handed =>
             /\ c.calls[Len(c.calls)].op = "defineXML"
             /\ \A k \in 1..c.n :
                   "could not find backing storage volume" \in LoggedFor(c, k)
                      => c.root.disks[k] = SourceOf(c).disks[k]

\* C14 (as claimed): a disk with no target element, a target without a
\* device name, no source element or a source without a file reference is
\* skipped: it never ends the clone, nothing is provisioned for it, its
\* entry is unchanged, and the define step is reached.
C14_MalformedDisksSkipped ==
    /\ ~(/\ CloneCrashed
         /\ Top.i <= Len(Top.root.disks)
         /\ IsMalformed(CurrentDisk)
         /\ CallsFor([calls |-> calls], Top.i) = {})
    /\ \A c \in CloneRuns :
          \A k \in 1..c.n :
             IsMalformed(SourceOf(c).disks[k]) =>
                /\ CallsFor(c, k) = {}
                /\ c.root.disks[k] = SourceOf(c).disks[k]

----------------------------------------------------------------------------
(* Properties of the action loop *)

\* interact_with_vm is running or was running when the program ended
InActionLoop == \E k \in 1..Len(stack) : stack[k].fn = "interact_with_vm"

\* C15 (as claimed): the action loop ends only when the user cancels the
\* menu or when exit-after-one-action is set; otherwise, after a selected
\* action completed or failed, the loop classifies again and shows the
\* menu; with exit-after-one-action the session ends after exactly one
\* selected action.
C15_DispatcherTermination ==
    /\ (InActionLoop /\ status \in {"crashed", "exited"}) => config.exit_after_action
    /\ status = "returned" =>
          \A j \in 1..Len(logged) : logged[j].msg # "failed to lookup domain"
    /\ (stack # <<>> /\ Top.fn = "interact_with_vm" /\ config.exit_after_action
        /\ Top.pc \in {"loop", "prompt"}) => Top.selected = NONE

\* C16 (as claimed): a failure reported by an external call made for an
\* action (start, shutdown, force-off, save, discard, set-metadata, domain
\* or volume lookup, volume create, define) aborts only that action; the
\* session never ends because of it.
C16_NonFatalFailures == InActionLoop => status # "crashed"

----------------------------------------------------------------------------
(* Properties of the clone's name and overlay *)

\* the names of the domains libvirt holds other than the clone of run c
NamesInUse(c) ==
    {hvDomains[u].name : u \in {x \in DOMAIN hvDomains : x # c.root.uuid}}

\* C17 (as claimed): a clone request whose name is empty or is the name of
\* a domain already known is rejected before any side effect: no volume
\* call, no define call, and no Domain added to the Registry.
C17_CloneNameValidated ==
    \A c \in CloneRuns :
        (c.new_name = "" \/ c.new_name \in NamesInUse(c)) =>
            /\ \A j \in 1..Len(c.calls) :
                  c.calls[j].op \notin ProvisioningOps \cup {"defineXML"}
            /\ \A k \in 1..Len(domains) : domains[k].uuid # c.root.uuid

\* C18 (as claimed): the Domain appended to the Registry after a successful
\* clone has the default overlay (path "/", no labels), whatever overlay the
\* source domain holds.
C18_CloneStartsUnfiled ==
    \A c \in CloneRuns :
        \A k \in 1..Len(domains) :
            (c.handed /\ domains[k].uuid = c.root.uuid)
               => domains[k].metadata = DefaultMetadata

\* C19 (as claimed): the Registry holds a Domain for a clone only after the
\* define call for it succeeded, one Domain per successful define, and
\* none when define or an earlier step failed; and the in-memory overlay of
\* a Registry domain never shows a path or label set other than the one the
\* hypervisor holds for it.
C19_RecordOnlyWhatExists ==
    /\ \A k \in 1..Len(domains) : domains[k].uuid \in DOMAIN hvDomains
    /\ \A c \in CloneRuns :
          LET entries == {k \in 1..Len(domains) : domains[k].uuid = c.root.uuid}
          IN  IF c.handed /\ c.root.uuid \in DOMAIN hvDomains /\ status # "crashed"
              THEN Cardinality(entries) = 1
              ELSE c.root.uuid \in DOMAIN hvDomains \/ entries = {}
    /\ \A k \in 1..Len(domains) :
          domains[k].metadata = HvOverlay(domains[k].uuid)

----------------------------------------------------------------------------
(* The source of a clone *)

SourceDomainReads == {"lookupByUUID", "XMLDesc"}

SourceVolumeReads ==
    {"storageVolLookupByPath", "storagePoolLookupByVolume", "volXMLDesc"}

\* C20: in every step of do_domain_clone, in either mode and whether the
\* step succeeds or raises, the calls issued on the source domain are
\* lookupByUUID and XMLDesc only, the calls naming a source volume's path
\* are the volume lookup, the pool lookup and the volume descriptor fetch
\* (a source volume is otherwise only the origin of createXMLFrom or a
\* backing path), every volume that existed still exists unchanged and no
\* new volume takes its path, and the source's descriptor, overlay payload
\* and Registry entry are unchanged.
C20_SourceReadOnly ==
    [][ (stack # <<>> /\ Top.fn = "do_domain_clone") =>
           LET u == domains[Top.dom].uuid IN
           /\ u \in DOMAIN hvDomains =>
                 (u \in DOMAIN hvDomains' /\ hvDomains'[u] = hvDomains[u])
           /\ hvVolumes \subseteq hvVolumes'
           /\ domains'[Top.dom] = domains[Top.dom]
           /\ \A j \in 1..Len(calls') :
                 /\ calls'[j].dom = u => calls'[j].op \in SourceDomainReads
                 /\ HasVolumeAt(hvVolumes, calls'[j].path)
                       => calls'[j].op \in SourceVolumeReads
           /\ \A v \in hvVolumes' \ hvVolumes : ~HasVolumeAt(hvVolumes, v.path) ]_vars

\* a heavy clone of a domain with a read-write disk has copied the source
\* volume, was defined and joined the Registry
C20_Witness ==
    /\ status = "returned"
    /\ \E c \in CloneRuns :
          /\ c.handed
          /\ ~c.cow
          /\ c.root.uuid \in DOMAIN hvDomains
          /\ \E j \in 1..Len(c.calls) :
                /\ c.calls[j].op = "createXMLFrom"
                /\ c.calls[j].from = "/p1/src.qcow2"
          /\ SourceOf(c).disks[1].source = "/p1/src.qcow2"

----------------------------------------------------------------------------
(* main from its first line, src/vmm/__init__.py 50-70 *)

\* main before libvirt.open
MainEntry == [MainFrame(<<>>) EXCEPT !.pc = "open"]

ConnCall(op) == Call(op, 0, 0, NONE, NONE, NoXML, NONE)

\* variant: a failed libvirt.open is logged and main goes on to list
MainOpen_GoesOn ==
    /\ Running("main", "open")
    /\ \E out \in {"ok", "open_raises"}, handles \in ListAllDomains :
          /\ calls' = <<ConnCall("open"), ConnCall("listAllDomains")>>
          /\ logged' = IF out = "ok" THEN <<>>
                       ELSE <<[disk |-> 0, msg |-> "failed to connect to libvirt"]>>
          /\ SetTop(MainFrame(handles))
          /\ UNCHANGED status
    /\ UNCHANGED <<hvDomains, hvActive, hvSaved, hvVolumes, domains, hist, config>>

\* lines 56-66: libvirt.open, whose libvirtError is logged and ends main,
\* then conn.listAllDomains(), whose libvirtError nothing catches; the calls
\* of the load that follows are counted from here
MainOpen ==
    /\ Running("main", "open")
    /\ \E out \in {"ok", "open_raises", "list_raises"}, handles \in ListAllDomains :
          CASE out = "open_raises" ->
                  /\ calls' = <<ConnCall("open")>>
                  /\ logged' = <<[disk |-> 0, msg |-> "failed to connect to libvirt"]>>
                  /\ Return
            [] out = "list_raises" ->
                  /\ calls' = <<ConnCall("open"), ConnCall("listAllDomains")>>
                  /\ logged' = <<>>
                  /\ Raise
            [] out = "ok" ->
                  /\ calls' = <<>>
                  /\ logged' = <<>>
                  /\ SetTop(MainFrame(handles))
                  /\ UNCHANGED status
    /\ UNCHANGED <<hvDomains, hvActive, hvSaved, hvVolumes, domains, hist, config>>

InitStartup ==
    /\ \E raw1 \in LoadPayloads, raw2 \in LoadPayloads :
          hvDomains = (1 :> [name |-> "src", desc |-> SourceDesc(FALSE, <<>>, raw1)])
                      @@ (2 :> [name |-> "other", desc |-> [OtherDesc EXCEPT !.meta = raw2]])
    /\ hvActive \in SUBSET {1}
    /\ hvSaved = {}
    /\ hvVolumes = InitVolumes
    /\ hist = [keep |-> MenuOps, ops |-> <<>>]
    /\ domains = <<>>
    /\ stack = <<MainEntry>>
    /\ status = "running"
    /\ calls = <<>>
    /\ logged = <<>>
    /\ config \in [exit_after_action : BOOLEAN]

NextStartup ==
    \/ MainOpen
    \/ MainLoad
    \/ MainStart
    \/ MainEnd
    \/ MainMenu({<<"none">>, <<"create">>})

SpecStartup == InitStartup /\ [][NextStartup]_vars

\* libvirt.open has failed
OpenFailed ==
    \E j \in 1..Len(logged) : logged[j].msg = "failed to connect to libvirt"

\* C21: when libvirt.open fails, main ends there: the failure is logged, no
\* domain is listed, the Registry is not built, no menu is presented and
\* libvirt.open is the only external call.
C21_ConnectionFailureFatal ==
    OpenFailed =>
        /\ status = "returned"
        /\ stack = <<>>
        /\ domains = <<>>
        /\ calls = <<ConnCall("open")>>

\* the connection could not be opened while the hypervisor holds domains
C21_Witness == OpenFailed /\ status = "returned" /\ DOMAIN hvDomains # {}

----------------------------------------------------------------------------
(* Properties of the dispatch *)

\* C22 (as claimed): selecting any action the menu offers (the state group
\* or one of the eight always-available actions, take-snapshot included)
\* invokes an operation before the loop classifies again: a libvirt call, a
\* handler, or a viewer; no offered action is a silent no-op.
C22_EveryActionDispatched ==
    [][ (/\ Running("interact_with_vm", "prompt")
         /\ Len(stack') >= Len(stack)
         /\ stack'[Len(stack)].selected # NONE)
           => \/ calls' # calls
              \/ Len(stack') > Len(stack)
              \/ status' = "exited" ]_vars

\* C23: every step that puts the action menu on screen has, in that same
\* step, looked the domain up by UUID and asked isActive() (and
\* hasManagedSaveImage() when it is not active), and the actions offered are
\* those of the flags the hypervisor holds at that moment, whatever was
\* offered before and whoever changed the state since.
C23_NoCachedState ==
    [][ (AtPrompt' /\ stack' # stack /\ status' = "running") =>
           LET frame == stack'[Len(stack')]
               uuid == domains[frame.dom].uuid
               group == IF uuid \in hvActive' THEN RunningGroup
                        ELSE IF uuid \in hvSaved' THEN SavedGroup
                        ELSE StoppedGroup
           IN  /\ frame.domInfo = uuid
               /\ calls' = <<DomCall("lookupByUUID", uuid), DomCall("isActive", uuid)>>
                           \o (IF uuid \in hvActive' THEN <<>>
                               ELSE <<DomCall("hasManagedSaveImage", uuid)>>)
               /\ Range(frame.actions) = group \cup EightAlways ]_vars

\* the menu is on screen again after an action of this menu completed, and
\* offers the group of a saved domain
C23_Witness ==
    /\ AtPrompt
    /\ hist.ops # <<>>
    /\ Top.domInfo \in hvSaved \ hvActive
    /\ "ACTION_CLEAN_START" \in Range(Top.actions)
    /\ Len(calls) = 3

----------------------------------------------------------------------------
(* browse_by_label, src/vmm/__init__.py 155-180 *)

BrowseLabelFrame ==
    [fn |-> "browse_by_label", pc |-> "begin", labels |-> {}, label |-> NONE,
     items |-> {}]

\* lines 158-160: the union of the label lists of the Registry
AllLabels(doms) == UNION {Range(doms[k].metadata.labels) : k \in 1..Len(doms)}

\* lines 171-175: the domains whose label list holds the label
DomainsWithLabel(doms, label) ==
    {k \in 1..Len(doms) : label \in Range(doms[k].metadata.labels)}

\* lines 158-160: the label set is computed, before the loop
BrowseLabelBegin ==
    /\ Running("browse_by_label", "begin")
    /\ SetTop([Top EXCEPT !.pc = "labels", !.labels = AllLabels(domains)])
    /\ UNCHANGED <<hvDomains, hvActive, hvSaved, hvVolumes, domains, status,
                   calls, logged, hist, config>>

\* lines 162-176: the label menu shows the label set of the frame; nothing
\* selected returns, a label selected puts its domains on screen
BrowseLabelPick ==
    /\ Running("browse_by_label", "labels")
    /\ \E label \in Top.labels \cup {NONE} :
          IF label = NONE
          THEN Return
          ELSE /\ SetTop([Top EXCEPT !.pc = "domains", !.label = label,
                                     !.items = DomainsWithLabel(domains, label)])
               /\ UNCHANGED status
    /\ UNCHANGED <<hvDomains, hvActive, hvSaved, hvVolumes, domains, calls,
                   logged, hist, config>>

\* lines 177-180: nothing selected goes back to the label menu, a domain
\* gets its action menu and the label menu follows
BrowseLabelDomain ==
    /\ Running("browse_by_label", "domains")
    /\ \E k \in Top.items \cup {0} :
          LET again == [stack EXCEPT ![Len(stack)].pc = "labels"] IN
          /\ stack' = IF k = 0 THEN again ELSE Append(again, InteractFrame(k))
          /\ UNCHANGED status
    /\ UNCHANGED <<hvDomains, hvActive, hvSaved, hvVolumes, domains, calls,
                   logged, hist, config>>

----------------------------------------------------------------------------
(* The Registry browsed by label, with labels added and removed *)

InitByLabel ==
    /\ \E raw1 \in LabelPayloads, raw2 \in {NoPayload, AsidePayload} :
          /\ hvDomains = (1 :> [name |-> "src", desc |-> SourceDesc(FALSE, <<>>, raw1)])
                         @@ (2 :> [name |-> "other", desc |-> [OtherDesc EXCEPT !.meta = raw2]])
          /\ domains = <<FromVirDomain("src", 1, raw1, FALSE),
                         FromVirDomain("other", 2, raw2, FALSE)>>
    /\ hvActive = {}
    /\ hvSaved = {}
    /\ hvVolumes = InitVolumes
    /\ stack = <<BrowseLabelFrame>>
    /\ status = "running"
    /\ calls = <<>>
    /\ logged = <<>>
    /\ hist = [keep |-> MenuOps, ops |-> <<>>]
    /\ config = [exit_after_action |-> FALSE]

NextByLabel ==
    \/ BrowseLabelBegin
    \/ BrowseLabelPick
    \/ BrowseLabelDomain
    \/ InteractClassify
    \/ InteractSelect({"ACTION_ADD_LABEL", "ACTION_REMOVE_LABEL"})
    \/ InteractAfter
    \/ DoDomainAddLabel(AskedLabels)
    \/ DoDomainRemoveLabel

SpecByLabel == InitByLabel /\ [][NextByLabel]_vars

\* C24 (as claimed): every time the label menu is on screen the labels
\* offered are the union of the current label sets of the Registry, labels
\* added or removed earlier in the same browse-by-label session included,
\* and the domains listed under a label are those whose current label set
\* holds it.
C24_LabelMenuReflectsRegistry ==
    (stack # <<>> /\ Top.fn = "browse_by_label") =>
        /\ Top.pc = "labels" => Top.labels = AllLabels(domains)
        /\ Top.pc = "domains" => Top.items = DomainsWithLabel(domains, Top.label)

----------------------------------------------------------------------------
(* Properties of the volumes of one clone *)

\* C25 (as claimed): within one clone the new volumes requested for
\* different read-write disks have pairwise distinct names, so two
\* read-write disks in one pool each get a new volume and each disk's
\* source is rewritten to its own new volume.
C25_DistinctVolumesPerDisk ==
    \A c \in CloneRuns :
        \A i \in 1..Len(c.calls), j \in 1..Len(c.calls) :
            (IsCreate(c.calls[i]) /\ IsCreate(c.calls[j])
             /\ c.calls[i].disk # c.calls[j].disk)
               => c.calls[i].xml.name # c.calls[j].xml.name

----------------------------------------------------------------------------
(* do_domain_edit, src/vmm/__init__.py 488-532 *)

\* The text of a descriptor, XMLDesc(): one entry per element of <domain>
XMLDesc(desc) ==
    <<[el |-> "name", v |-> desc.name], [el |-> "uuid", v |-> desc.uuid],
      [el |-> "devices", v |-> desc.disks], [el |-> "metadata", v |-> desc.meta]>>

\* a text with the four elements is a well-formed <domain> document
WellFormed(text) == Len(text) = 4

\* the descriptor a well-formed text stands for
ParseXml(text) ==
    [name |-> text[1].v, uuid |-> text[2].v, disks |-> text[3].v, meta |-> text[4].v]

\* virt-xml-validate exits with status 0 on a well-formed document with a name
ValidateOk(text) == WellFormed(text) /\ text[1].v # ""

\* the temporary file: its content and the position of the program's handle
EmptyFile == [data |-> <<>>, pos |-> 0]

\* lines 508-511: seek(0), truncate(0), write(text), flush()
FileRewrite(text) == [data |-> text, pos |-> Len(text)]

\* filp.seek(0)
FileSeek0(f) == [f EXCEPT !.pos = 0]

\* filp.read(): the content from the position to the end; the position
\* moves to the end
FileRead(f) ==
    [text |-> SubSeq(f.data, f.pos + 1, Len(f.data)),
     file |-> [f EXCEPT !.pos = Len(f.data)]]

\* what the user may leave in the file: the text as it was, the text without
\* its disks, the text with another overlay payload, a document cut short
EditedTexts(original) ==
    {original,
     [original EXCEPT ![3] = [el |-> "devices", v |-> <<>>]],
     [original EXCEPT ![4] = [el |-> "metadata", v |-> AsidePayload]],
     SubSeq(original, 1, 2)}

\* the entry the history keeps of one turn of the edit loop
Edited(outcome, d, original, edited, handed) ==
    [op |-> "edit", dom |-> d, outcome |-> outcome, original |-> original,
     edited |-> edited, handed |-> handed]

\* lines 491-502: the choice of the editor
EditBegin ==
    /\ Running("do_domain_edit", "begin")
    /\ \E interactive \in BOOLEAN, found \in BOOLEAN :
          IF interactive /\ ~found
          THEN /\ logged' = <<[disk |-> 0, msg |-> "could not find suitable editor"]>>
               /\ Return
          ELSE /\ logged' = <<>>
               /\ SetTop([fn |-> "do_domain_edit", pc |-> "loop", dom |-> Top.dom,
                          file |-> EmptyFile, original |-> <<>>])
               /\ UNCHANGED status
    /\ calls' = <<>>
    /\ UNCHANGED <<hvDomains, hvActive, hvSaved, hvVolumes, domains, hist, config>>

\* lines 506-511: the head of the loop: the descriptor is fetched and
\* written over the file (calls and logged are those of this turn)
EditFetch ==
    /\ Running("do_domain_edit", "loop")
    /\ LET uuid == domains[Top.dom].uuid IN
       \E lookupOk \in BOOLEAN :
          IF ~lookupOk \/ uuid \notin DOMAIN hvDomains
          THEN /\ calls' = <<DomCall("lookupByUUID", uuid)>>
               /\ Raise
          ELSE LET original == XMLDesc(hvDomains[uuid].desc) IN
               /\ calls' = <<DomCall("lookupByUUID", uuid), DomCall("XMLDesc", uuid)>>
               /\ SetTop([Top EXCEPT !.pc = "editor", !.original = original,
                                     !.file = FileRewrite(original)])
               /\ UNCHANGED status
    /\ logged' = <<>>
    /\ UNCHANGED <<hvDomains, hvActive, hvSaved, hvVolumes, domains, hist, config>>

\* lines 513-517: the editor runs on the file; a non-zero exit status ends
\* the edit
EditRun ==
    /\ Running("do_domain_edit", "editor")
    /\ \E edited \in EditedTexts(Top.original), exitOk \in BOOLEAN :
          IF ~exitOk
          THEN /\ logged' = Append(logged, [disk |-> 0,
                     msg |-> "editor had non-zero exit status; aborting domain edit."])
               /\ Record(Edited("editor_error", Top.dom, Top.original, edited, <<>>))
               /\ Return
          ELSE /\ SetTop([Top EXCEPT !.pc = "validate", !.file.data = edited])
               /\ UNCHANGED <<status, logged, hist>>
    /\ UNCHANGED <<hvDomains, hvActive, hvSaved, hvVolumes, domains, calls, config>>

\* lines 519-532: the validation, the comparison with the original and
\* the definition
EditValidate ==
    /\ Running("do_domain_edit", "validate")
    /\ LET d == Top.dom
           edited == Top.file.data
           entry(outcome, handed) == Edited(outcome, d, Top.original, edited, handed)
       IN
       IF ~ValidateOk(edited)
       THEN /\ logged' = Append(logged, [disk |-> 0, msg |-> "invalid domain XML"])
            /\ Record(entry("invalid", <<>>))
            /\ SetTop([Top EXCEPT !.pc = "loop"])
            /\ UNCHANGED <<status, hvDomains, calls>>
       ELSE LET first == FileRead(FileSeek0(Top.file))
                new_xml == first.text
                second == FileRead(first.file)
                handed == second.text
            IN
            IF new_xml = Top.original
            THEN /\ logged' = Append(logged, [disk |-> 0, msg |-> "no changes for domain"])
                 /\ Record(entry("unchanged", <<>>))
                 /\ Return
                 /\ UNCHANGED <<hvDomains, calls>>
            ELSE /\ calls' = Append(calls, Call("defineXML", domains[d].uuid, 0, NONE,
                                                NONE, handed, NONE))
                 /\ IF ~WellFormed(handed)
                    THEN /\ Record(entry("define_raised", handed))
                         /\ Raise
                         /\ UNCHANGED <<hvDomains, logged>>
                    ELSE \E defineOk \in BOOLEAN :
                         IF ~defineOk \/ DefineRefuses(hvDomains, ParseXml(handed))
                         THEN /\ Record(entry("define_raised", handed))
                              /\ Raise
                              /\ UNCHANGED <<hvDomains, logged>>
                         ELSE LET desc == ParseXml(handed) IN
                              /\ hvDomains' = (desc.uuid :> [name |-> desc.name,
                                                             desc |-> desc]) @@ hvDomains
                              /\ logged' = Append(logged, [disk |-> 0,
                                                           msg |-> "updated domain"])
                              /\ Record(entry("defined", handed))
                              /\ Return
    /\ UNCHANGED <<hvActive, hvSaved, hvVolumes, domains, config>>

----------------------------------------------------------------------------
(* The descriptor edit from the action menu *)

InitEdit ==
    /\ \E raw \in SourcePayloads, disks \in {<<>>, <<Disk("vda", FALSE, "/p1/src.qcow2")>>} :
          /\ hvDomains = (1 :> [name |-> "src", desc |-> SourceDesc(FALSE, disks, raw)])
                         @@ (2 :> [name |-> "other", desc |-> OtherDesc])
          /\ domains = <<FromVirDomain("src", 1, raw, FALSE),
                         FromVirDomain("other", 2, NoPayload, FALSE)>>
    /\ hvActive = {}
    /\ hvSaved = {}
    /\ hvVolumes = InitVolumes
    /\ stack = <<InteractFrame(1)>>
    /\ status = "running"
    /\ calls = <<>>
    /\ logged = <<>>
    /\ hist = [keep |-> MaxOps, ops |-> <<>>]
    /\ config = [exit_after_action |-> FALSE]

NextEdit ==
    \/ InteractClassify
    \/ InteractSelect({"ACTION_EDIT_XML"})
    \/ InteractAfter
    \/ EditBegin
    \/ EditFetch
    \/ EditRun
    \/ EditValidate

SpecEdit == InitEdit /\ [][NextEdit]_vars

\* C26 (as claimed): a validated document that differs from the original is
\* handed to the define operation exactly as the user left it; an unchanged
\* document, a document that fails validation and an editor that exits with
\* an error lead to no define call, and a failed validation brings the
\* editor back.
C26_EditAppliesEditedContent ==
    /\ \A k \in 1..Len(hist.ops) :
          LET e == hist.ops[k] IN
          /\ (ValidateOk(e.edited) /\ e.edited # e.original
              /\ e.outcome # "editor_error")
                => /\ e.outcome \in {"defined", "define_raised"}
                   /\ e.handed = e.edited
          /\ e.outcome \in {"unchanged", "invalid", "editor_error"} => e.handed = <<>>
    /\ \A i \in 1..Len(calls) :
          calls[i].op = "defineXML" =>
              /\ hist.ops # <<>>
              /\ Last(hist.ops).outcome \in {"defined", "define_raised"}

----------------------------------------------------------------------------
(* The clone-name prompt *)

\* the step in which do_domain_clone returns from its name prompt: the
\* user gave no name
CloneCancelled ==
    /\ Running("do_domain_clone", "begin")
    /\ Len(stack') < Len(stack)

\* C27: when the user cancels at the clone-name prompt, do_domain_clone
\* has asked libvirt for the source's lookup and descriptor only: no volume
\* is looked up or created, nothing is defined, and the volumes, the
\* hypervisor's domains (the source among them) and the Registry are as
\* they were.
C27_CancelledCloneNoEffect ==
    [][ CloneCancelled =>
          /\ hvVolumes' = hvVolumes
          /\ hvDomains' = hvDomains
          /\ domains' = domains
          /\ hvActive' = hvActive /\ hvSaved' = hvSaved
          /\ \A i \in 1..Len(calls') :
                calls'[i].op \in {"lookupByUUID", "XMLDesc"}
          /\ status' \in {"running", "returned"} ]_vars

\* a clone cancelled at its prompt: the handler has returned with the two
\* reads as its only calls and no clone in the history
C27_Witness ==
    /\ status = "returned"
    /\ stack = <<>>
    /\ hist.ops = <<>>
    /\ Len(calls) = 2
    /\ calls[2].op = "XMLDesc"
    /\ hvVolumes = InitVolumes
    /\ DOMAIN hvDomains = {1, 2}

============================================================================
